---- MODULE Spec2Model ----
(***************************************************************************)
(* Engine build scripts examples/gptj/build.py and examples/gptneox/build.py *)
(* as a state machine: the main process parses its arguments, then either   *)
(* builds every rank itself or spawns one worker process per rank.          *)
(*                                                                          *)
(* Python values are modelled by strings: "None" is None, "False" is the    *)
(* default of an optional-dtype flag, "" is "no exception".                 *)
(* External calls (checkpoint loaders, Builder) are modelled by their       *)
(* outcome: build_engine yields an engine, None or raises;                  *)
(* save_timing_cache yields True or False. Each process keeps a trace of    *)
(* the calls it made, with the rank they were made for.                     *)
(*                                                                          *)
(* Beside the builds the module holds, each under a specification of its    *)
(* own: get_scaling_factors of the GPT-J script (SpecScaling), the          *)
(* argument passing of BloomForCausalLM (SpecBloom) and the test-resource   *)
(* script cpp/tests/resources/scripts/build_gptj_engines.py (SpecEngines).  *)
(***************************************************************************)
EXTENDS Integers, Sequences, FiniteSets, TLC

VARIABLES
    script,       \* which build script runs: "gptj" or "gptneox"
    argv,         \* the command line, as argparse read it
    args,         \* the argparse namespace, as the program goes on to change it
    deviceCount,  \* torch.cuda.device_count()
    ckpt,         \* the config of the checkpoint at args.model_dir
    pc,           \* position of the main process
    error,        \* message of the exception that ended the main process, "" if none
    hf_gpt,       \* the module global hf_gpt of the main process
    mode,         \* "none" before run_build chooses, then "serial" or "parallel"
    proc,         \* the processes that run build(rank, args), by rank
    dirExists,    \* os.path.exists(args.output_dir)
    files,        \* number of times each path has been written
    gsf,          \* a call of get_scaling_factors: its arguments, position and result
    bloom,        \* a BloomForCausalLM: prepare_inputs and the forward calls fed with it
    tr            \* a run of the test-resource script build_gptj_engines.py

vars == <<script, argv, args, deviceCount, ckpt, pc, error, hf_gpt, mode, proc, dirExists, files,
          gsf, bloom, tr>>

\* Bounds of the model: the largest world size, and the largest number of
\* GPUs (so the largest number of worker processes of a parallel build).
MaxWorldSize == 3
MaxGpus == 2
MaxLayerList == 2
MaxInputLen == 2

Scripts == {"gptj", "gptneox"}

MODEL_NAME(s) == s

PluginDtypes == {"False", "float16", "float32"}

\* Python truthiness of an optional-dtype flag (default False, else a dtype string).
Truthy(x) == x # "False"

\* ---------------------------------------------------------------- messages
MsgInt8 == "Not support int8 weight only."
MsgInt4 == "We only support AWQ for int4 weight only."
MsgFp8Kv == "You have to use GPT attention plugin or inflight batching plugin when fp8 KV cache is set"
MsgIfbAttn == "You have to use GPT attention plugin for in-flight batching mode"
MsgIfbPaged == "You have to use paged kv cache for in-flight batching mode"
MsgIfbPadding == "You have to remove input padding for in-flight batching"
MsgTwoProfiles == "Only 1 opt profile supported for inflight batching and paged kv cache."
MsgNotLoaded == "Could not load weights from hf_gpt model as it is not loaded yet."
MsgEmbd == "Embedding size/hidden size must be divisible by world size."
MsgHead == "Number of attention heads must be divisible by world size."
MsgFmha == "AssertionError"
MsgEngine == "Failed to build engine for rank"
MsgTimingCache == "Failed to save timing cache."
MsgUnbound == "UnboundLocalError: builder_config"
MsgExternal == "exception raised by build_engine"
MsgWorker == "ProcessRaisedException"

AssertionMessages ==
    {MsgInt8, MsgInt4, MsgFp8Kv, MsgIfbAttn, MsgIfbPaged, MsgIfbPadding,
     MsgTwoProfiles, MsgNotLoaded, MsgEmbd, MsgHead, MsgFmha, MsgEngine,
     MsgTimingCache}

\* ---------------------------------------------------------------- arguments
\* The command line defaults of both parsers (argparse add_argument defaults).
DefaultArgs(s) ==
    [world_size |-> 1,
     model_dir |-> "None",
     dtype |-> "float16",
     timing_cache |-> "model.cache",
     output_dir |-> "gpt_outputs",
     n_embd |-> IF s = "gptj" THEN 4096 ELSE 6144,
     n_head |-> IF s = "gptj" THEN 16 ELSE 64,
     n_layer |-> IF s = "gptj" THEN 28 ELSE 44,
     use_gpt_attention_plugin |-> "False",
     use_gemm_plugin |-> "False",
     use_weight_only_quant_matmul_plugin |-> "False",
     use_weight_only_groupwise_quant_matmul_plugin |-> "False",
     use_layernorm_plugin |-> "False",
     parallel_build |-> FALSE,
     enable_context_fmha |-> FALSE,
     enable_context_fmha_fp32_acc |-> FALSE,
     remove_input_padding |-> FALSE,
     enable_fp8 |-> FALSE,
     fp8_kv_cache |-> FALSE,
     use_inflight_batching |-> FALSE,
     enable_two_optimization_profiles |-> FALSE,
     paged_kv_cache |-> FALSE,
     per_group |-> FALSE,
     use_weight_only |-> FALSE,
     weight_only_precision |-> "int8",
     quant_mode |-> <<>>]

\* The checkpoint loader parse_arguments selects (GPT-J: AWQ or HF; GPT-NeoX: GPTQ or HF).
Loader(s, a) ==
    IF s = "gptj"
    THEN IF a.use_weight_only /\ a.weight_only_precision = "int4" /\ a.per_group
         THEN "awq" ELSE "hf"
    ELSE IF ~Truthy(a.use_weight_only_groupwise_quant_matmul_plugin)
         THEN "hf" ELSE "gptq"

\* The module global hf_gpt after the loading block of parse_arguments.
LoadCheckpoint(s, a) == IF a.model_dir # "None" THEN Loader(s, a) ELSE "None"

\* Variant of ParseErrorGptj: the input-padding assertion of in-flight
\* batching is missing.
ParseErrorGptj_NoPaddingAssert(a) ==
    IF a.use_weight_only /\ a.weight_only_precision = "int8" THEN MsgInt8
    ELSE IF a.use_weight_only /\ a.weight_only_precision = "int4"
            /\ a.per_group = FALSE THEN MsgInt4
    ELSE IF a.fp8_kv_cache /\ ~Truthy(a.use_gpt_attention_plugin) THEN MsgFp8Kv
    ELSE IF a.use_inflight_batching /\ ~Truthy(a.use_gpt_attention_plugin)
         THEN MsgIfbAttn
    ELSE IF a.use_inflight_batching /\ ~a.paged_kv_cache THEN MsgIfbPaged
    ELSE IF (a.remove_input_padding \/ a.use_inflight_batching \/ a.paged_kv_cache)
            /\ a.enable_two_optimization_profiles THEN MsgTwoProfiles
    ELSE ""

\* Variant of ParseErrorGptj: the int4 assertion tests per_group == True.
ParseErrorGptj_Int4Inverted(a) ==
    IF a.use_weight_only /\ a.weight_only_precision = "int8" THEN MsgInt8
    ELSE IF a.use_weight_only /\ a.weight_only_precision = "int4"
            /\ a.per_group = TRUE THEN MsgInt4
    ELSE IF a.fp8_kv_cache /\ ~Truthy(a.use_gpt_attention_plugin) THEN MsgFp8Kv
    ELSE IF a.use_inflight_batching /\ ~Truthy(a.use_gpt_attention_plugin)
         THEN MsgIfbAttn
    ELSE IF a.use_inflight_batching /\ ~a.paged_kv_cache THEN MsgIfbPaged
    ELSE IF a.use_inflight_batching /\ ~a.remove_input_padding THEN MsgIfbPadding
    ELSE IF (a.remove_input_padding \/ a.use_inflight_batching \/ a.paged_kv_cache)
            /\ a.enable_two_optimization_profiles THEN MsgTwoProfiles
    ELSE ""

\* Variant of ParseErrorGptj: the int8 assertion does not test use_weight_only.
ParseErrorGptj_Int8Unguarded(a) ==
    IF a.weight_only_precision = "int8" THEN MsgInt8
    ELSE IF a.use_weight_only /\ a.weight_only_precision = "int4"
            /\ a.per_group = FALSE THEN MsgInt4
    ELSE IF a.fp8_kv_cache /\ ~Truthy(a.use_gpt_attention_plugin) THEN MsgFp8Kv
    ELSE IF a.use_inflight_batching /\ ~Truthy(a.use_gpt_attention_plugin)
         THEN MsgIfbAttn
    ELSE IF a.use_inflight_batching /\ ~a.paged_kv_cache THEN MsgIfbPaged
    ELSE IF a.use_inflight_batching /\ ~a.remove_input_padding THEN MsgIfbPadding
    ELSE IF (a.remove_input_padding \/ a.use_inflight_batching \/ a.paged_kv_cache)
            /\ a.enable_two_optimization_profiles THEN MsgTwoProfiles
    ELSE ""

\* The flag-combination assertions of the GPT-J parse_arguments, in program
\* order: the message of the first one that fails, "" when all hold.
ParseErrorGptj(a) ==
    IF a.use_weight_only /\ a.weight_only_precision = "int8" THEN MsgInt8
    ELSE IF a.use_weight_only /\ a.weight_only_precision = "int4"
            /\ a.per_group = FALSE THEN MsgInt4
    ELSE IF a.fp8_kv_cache /\ ~Truthy(a.use_gpt_attention_plugin) THEN MsgFp8Kv
    ELSE IF a.use_inflight_batching /\ ~Truthy(a.use_gpt_attention_plugin)
         THEN MsgIfbAttn
    ELSE IF a.use_inflight_batching /\ ~a.paged_kv_cache THEN MsgIfbPaged
    ELSE IF a.use_inflight_batching /\ ~a.remove_input_padding THEN MsgIfbPadding
    ELSE IF (a.remove_input_padding \/ a.use_inflight_batching \/ a.paged_kv_cache)
            /\ a.enable_two_optimization_profiles THEN MsgTwoProfiles
    ELSE ""

\* Variant of QuantModeOf: the enable_fp8 test is nested in the
\* fp8_kv_cache branch.
QuantModeOf_Fp8Nested(a) ==
    LET q0 == IF a.use_weight_only
              THEN <<IF a.weight_only_precision = "int4"
                     THEN "QuantMode.use_weight_only(True)"
                     ELSE "QuantMode.use_weight_only(False)">>
              ELSE <<"QuantMode(0)">>
    IN  IF a.fp8_kv_cache
        THEN IF a.enable_fp8
             THEN q0 \o <<"set_fp8_kv_cache()", "set_fp8_qdq()">>
             ELSE q0 \o <<"set_fp8_kv_cache()">>
        ELSE q0

\* args.quant_mode as parse_arguments of GPT-J computes it. A QuantMode is
\* written as the calls that made it: its constructor, then the setters
\* applied to it, in order.
QuantModeOf(a) ==
    LET q0 == IF a.use_weight_only
              THEN <<IF a.weight_only_precision = "int4"
                     THEN "QuantMode.use_weight_only(True)"
                     ELSE "QuantMode.use_weight_only(False)">>
              ELSE <<"QuantMode(0)">>
        q1 == IF a.fp8_kv_cache THEN Append(q0, "set_fp8_kv_cache()") ELSE q0
    IN  IF a.enable_fp8 THEN Append(q1, "set_fp8_qdq()") ELSE q1

ParseError(s, a) == IF s = "gptj" THEN ParseErrorGptj(a) ELSE ""

\* args after the loading block: the model sizes are taken from the checkpoint.
SizesFrom(a, c) ==
    IF a.model_dir # "None"
    THEN [a EXCEPT !.n_embd = c.n_embd, !.n_head = c.n_head, !.n_layer = c.n_layer]
    ELSE a

\* The args object parse_arguments returns.
ParsedArgs(s, a, c) ==
    IF s = "gptj"
    THEN [SizesFrom(a, c) EXCEPT !.quant_mode = QuantModeOf(a)]
    ELSE SizesFrom(a, c)

\* ---------------------------------------------------------------- files
\* Variant of get_engine_name: the rank is left out of the name.
get_engine_name_NoRank(model, dtype, tp_size, rank) ==
    model \o "_" \o dtype \o "_tp" \o ToString(tp_size) \o ".engine"

get_engine_name(model, dtype, tp_size, rank) ==
    model \o "_" \o dtype \o "_tp" \o ToString(tp_size) \o "_rank"
          \o ToString(rank) \o ".engine"

\* os.path.join(dir, name)
PathJoin(dir, name) == dir \o "/" \o name

\* open(path, 'wb') and write: one more write of path.
WriteFile(f, path) ==
    IF path \in DOMAIN f THEN [f EXCEPT ![path] = @ + 1] ELSE f @@ (path :> 1)

Written(path) == IF path \in DOMAIN files THEN files[path] ELSE 0

EnginePath(a, s, rank) ==
    PathJoin(a.output_dir, get_engine_name(MODEL_NAME(s), a.dtype, a.world_size, rank))

ConfigPath(a) == PathJoin(a.output_dir, "config.json")

CachePath(a) == PathJoin(a.output_dir, "model.cache")

\* ---------------------------------------------------------------- processes
NoConfig == [bound |-> FALSE, rank |-> 0, timing_cache |-> "None"]

\* A process about to call build(rank, args); g is its module global hf_gpt.
NewProc(rank, g) ==
    [rank |-> rank, pc |-> "exists_check", next |-> 0, cur_rank |-> 0,
     cache |-> "None", builder_config |-> NoConfig, engine |-> "None",
     hf_gpt |-> g, error |-> "", plugin_config |-> {}, trace |-> <<>>]

Step(rank, step, arg) == [rank |-> rank, step |-> step, arg |-> arg]

Running(p) == proc[p].pc \notin {"returned", "failed", "killed"}

Fail(p, msg) == [proc EXCEPT ![p].pc = "failed", ![p].error = msg]

Log(p, newpc, entries) ==
    [proc EXCEPT ![p].pc = newpc, ![p].trace = @ \o entries]

main == <<pc, error, hf_gpt, mode>>
env == <<script, deviceCount, ckpt, argv, gsf, bloom, tr>>

\* ---------------------------------------------------------------- main process
\* parse_arguments, called first by run_build / __main__.
ParseArguments ==
    /\ pc = "start"
    /\ hf_gpt' = LoadCheckpoint(script, args)
    /\ IF ParseError(script, args) = ""
       THEN /\ args' = ParsedArgs(script, args, ckpt)
            /\ pc' = "parsed"
            /\ error' = ""
       ELSE /\ args' = args
            /\ pc' = "failed"
            /\ error' = ParseError(script, args)
    /\ UNCHANGED <<env, mode, proc, dirExists, files>>

\* Variant of SpawnCondition: as many GPUs as ranks are not enough.
SpawnCondition_MoreGpusThanRanks(a, n) ==
    a.parallel_build /\ a.world_size > 1 /\ n > a.world_size

\* The condition under which worker processes are spawned.
SpawnCondition(a, n) == a.parallel_build /\ a.world_size > 1 /\ n >= a.world_size

\* mp.spawn(build, nprocs=world_size, args=(args,)): world_size fresh
\* processes, each importing the script anew, so each with hf_gpt = None.
RunBuildSpawn ==
    /\ pc = "parsed"
    /\ SpawnCondition(args, deviceCount)
    /\ mode' = "parallel"
    /\ proc' = [r \in 0..(args.world_size - 1) |-> NewProc(r, "None")]
    /\ pc' = "building"
    /\ UNCHANGED <<env, args, error, hf_gpt, dirExists, files>>

\* The serial branch: parallel_build is reset and the main process calls build(0, args).
RunBuildSerial ==
    /\ pc = "parsed"
    /\ ~SpawnCondition(args, deviceCount)
    /\ args' = [args EXCEPT !.parallel_build = FALSE]
    /\ mode' = "serial"
    /\ proc' = (0 :> NewProc(0, hf_gpt))
    /\ pc' = "building"
    /\ UNCHANGED <<env, error, hf_gpt, dirExists, files>>

\* ---------------------------------------------------------------- build(rank, args)
\* "if not os.path.exists(args.output_dir)": the test, then the makedirs call.
ExistsCheck(p) ==
    /\ proc[p].pc = "exists_check"
    /\ proc' = [proc EXCEPT ![p].pc = IF dirExists THEN "for" ELSE "makedirs"]
    /\ UNCHANGED <<env, args, main, dirExists, files>>

\* os.makedirs raises FileExistsError when another process created the
\* directory after this one tested for it.
MakeDirs(p) ==
    /\ proc[p].pc = "makedirs"
    /\ IF dirExists
       THEN proc' = Fail(p, "FileExistsError")
       ELSE proc' = [proc EXCEPT ![p].pc = "for"]
    /\ dirExists' = TRUE
    /\ UNCHANGED <<env, args, main, files>>

\* Variant of Skipped: the "continue" is missing, every process builds every rank.
Skipped_Never(a, rank, cur_rank) == FALSE

\* "if args.parallel_build and cur_rank != rank: continue"
Skipped(a, rank, cur_rank) == a.parallel_build /\ cur_rank # rank

\* The ranks of range(world_size), from index i on, whose loop body runs.
Remaining(a, rank, i) ==
    {r \in i..(a.world_size - 1) : ~Skipped(a, rank, r)}

Min(S) == CHOOSE x \in S : \A y \in S : x <= y

\* "for cur_rank in range(args.world_size)": advance to the next rank whose
\* body runs, or leave the loop.
ForLoop(p) ==
    /\ proc[p].pc = "for"
    /\ LET rest == Remaining(args, proc[p].rank, proc[p].next)
       IN  IF rest = {}
           THEN proc' = [proc EXCEPT ![p].pc = "save_timing_cache"]
           ELSE proc' = [proc EXCEPT ![p].pc = "create_builder_config",
                                     ![p].cur_rank = Min(rest),
                                     ![p].next = Min(rest) + 1]
    /\ UNCHANGED <<env, args, main, dirExists, files>>

\* Variant of TimingCacheArg: the in-memory cache is never passed on.
TimingCacheArg_AlwaysPath(a, cache) == a.timing_cache

\* "timing_cache=args.timing_cache if cache is None else cache"
TimingCacheArg(a, cache) == IF cache = "None" THEN a.timing_cache ELSE cache

CreateBuilderConfig(p) ==
    /\ proc[p].pc = "create_builder_config"
    /\ LET tc == TimingCacheArg(args, proc[p].cache)
       IN  proc' = [Log(p, "instantiate",
                       <<Step(proc[p].cur_rank, "create_builder_config", tc)>>)
                      EXCEPT ![p].builder_config =
                          [bound |-> TRUE, rank |-> proc[p].cur_rank,
                           timing_cache |-> tc]]
    /\ UNCHANGED <<env, args, main, dirExists, files>>

\* build_rank_engine: "Initialize Module".
Instantiate(p) ==
    /\ proc[p].pc = "instantiate"
    /\ proc' = Log(p, "quantize", <<Step(proc[p].cur_rank, "instantiate", script)>>)
    /\ UNCHANGED <<env, args, main, dirExists, files>>

\* The quantization transforms build_rank_engine applies to the module, in order.
QuantizeSteps(s, a, rank) ==
    (IF Truthy(a.use_weight_only_quant_matmul_plugin)
     THEN <<Step(rank, "quantize", "weight_only_quantize")>> ELSE <<>>)
    \o
    (IF s = "gptj"
     THEN IF a.use_weight_only /\ a.weight_only_precision = "int4" /\ a.per_group
          THEN <<Step(rank, "quantize", "weight_only_groupwise_quantize")>>
          ELSE <<>>
     ELSE IF Truthy(a.use_weight_only_groupwise_quant_matmul_plugin)
          THEN <<Step(rank, "quantize", "weight_only_groupwise_quantize")>>
          ELSE <<>>)

Quantize(p) ==
    /\ proc[p].pc = "quantize"
    /\ proc' = Log(p, "load_weights", QuantizeSteps(script, args, proc[p].cur_rank))
    /\ UNCHANGED <<env, args, main, dirExists, files>>

\* The assertions of the "if args.model_dir is not None" block: the message
\* of the first that fails, "" when the weights get loaded.
LoadError(s, a, g) ==
    IF g = "None" THEN MsgNotLoaded
    ELSE IF s = "gptneox" /\ a.world_size > 1 /\ a.n_embd % a.world_size # 0
         THEN MsgEmbd
    ELSE IF s = "gptneox" /\ a.world_size > 1 /\ a.n_head % a.world_size # 0
         THEN MsgHead
    ELSE ""

\* The weight loader build_rank_engine calls.
WeightLoader(s, a) ==
    IF s = "gptj"
    THEN IF a.use_weight_only /\ a.weight_only_precision = "int4" /\ a.per_group
         THEN "load_from_awq_gpt_j" ELSE "load_from_hf_gpt_j"
    ELSE "load_from_hf_gpt_neox"

LoadWeights(p) ==
    /\ proc[p].pc = "load_weights"
    /\ IF args.model_dir = "None"
       THEN proc' = [proc EXCEPT ![p].pc = "create_network"]
       ELSE IF LoadError(script, args, proc[p].hf_gpt) # ""
            THEN proc' = Fail(p, LoadError(script, args, proc[p].hf_gpt))
            ELSE proc' = Log(p, "create_network",
                             <<Step(proc[p].cur_rank, "load_weights",
                                    WeightLoader(script, args))>>)
    /\ UNCHANGED <<env, args, main, dirExists, files>>

\* Variant of PluginConfig: the GEMM plugin gets the dtype of the attention
\* plugin.
PluginConfig_GemmFromAttention(s, a) ==
    (IF Truthy(a.use_gpt_attention_plugin)
     THEN {<<"gpt_attention_plugin", a.use_gpt_attention_plugin>>} ELSE {})
    \cup (IF Truthy(a.use_gemm_plugin)
          THEN {<<"gemm_plugin", a.use_gpt_attention_plugin>>} ELSE {})
    \cup (IF Truthy(a.use_layernorm_plugin)
          THEN {<<"layernorm_plugin", a.use_layernorm_plugin>>} ELSE {})
    \cup (IF a.enable_context_fmha
          THEN {<<"context_fmha", "enabled">>} ELSE {})
    \cup (IF a.enable_context_fmha_fp32_acc
          THEN {<<"context_fmha", "enabled_with_fp32_acc">>} ELSE {})
    \cup (IF Truthy(a.use_weight_only_quant_matmul_plugin)
          THEN {<<"weight_only_quant_matmul_plugin",
                  a.use_weight_only_quant_matmul_plugin>>} ELSE {})
    \cup (IF s = "gptj"
          THEN IF a.use_weight_only /\ a.per_group
               THEN {<<"weight_only_groupwise_quant_matmul_plugin", "float16">>}
               ELSE {}
          ELSE IF Truthy(a.use_weight_only_groupwise_quant_matmul_plugin)
               THEN {<<"weight_only_groupwise_quant_matmul_plugin",
                       a.use_weight_only_groupwise_quant_matmul_plugin>>}
               ELSE {})
    \cup (IF a.world_size > 1 THEN {<<"nccl_plugin", a.dtype>>} ELSE {})
    \cup (IF a.remove_input_padding THEN {<<"remove_input_padding", "">>} ELSE {})
    \cup (IF s = "gptj" /\ a.use_inflight_batching
          THEN {<<"in_flight_batching", "">>} ELSE {})
    \cup (IF s = "gptj" /\ a.paged_kv_cache
          THEN {<<"paged_kv_cache", "">>} ELSE {})

\* network.plugin_config after the "Module -> Network" block: the settings
\* made, each with its argument.
PluginConfig(s, a) ==
    (IF Truthy(a.use_gpt_attention_plugin)
     THEN {<<"gpt_attention_plugin", a.use_gpt_attention_plugin>>} ELSE {})
    \cup (IF Truthy(a.use_gemm_plugin)
          THEN {<<"gemm_plugin", a.use_gemm_plugin>>} ELSE {})
    \cup (IF Truthy(a.use_layernorm_plugin)
          THEN {<<"layernorm_plugin", a.use_layernorm_plugin>>} ELSE {})
    \cup (IF a.enable_context_fmha
          THEN {<<"context_fmha", "enabled">>} ELSE {})
    \cup (IF a.enable_context_fmha_fp32_acc
          THEN {<<"context_fmha", "enabled_with_fp32_acc">>} ELSE {})
    \cup (IF Truthy(a.use_weight_only_quant_matmul_plugin)
          THEN {<<"weight_only_quant_matmul_plugin",
                  a.use_weight_only_quant_matmul_plugin>>} ELSE {})
    \cup (IF s = "gptj"
          THEN IF a.use_weight_only /\ a.per_group
               THEN {<<"weight_only_groupwise_quant_matmul_plugin", "float16">>}
               ELSE {}
          ELSE IF Truthy(a.use_weight_only_groupwise_quant_matmul_plugin)
               THEN {<<"weight_only_groupwise_quant_matmul_plugin",
                       a.use_weight_only_groupwise_quant_matmul_plugin>>}
               ELSE {})
    \cup (IF a.world_size > 1 THEN {<<"nccl_plugin", a.dtype>>} ELSE {})
    \cup (IF a.remove_input_padding THEN {<<"remove_input_padding", "">>} ELSE {})
    \cup (IF s = "gptj" /\ a.use_inflight_batching
          THEN {<<"in_flight_batching", "">>} ELSE {})
    \cup (IF s = "gptj" /\ a.paged_kv_cache
          THEN {<<"paged_kv_cache", "">>} ELSE {})

\* Variant of CreateNetwork: the assertion on the two context-FMHA flags is
\* missing.
CreateNetwork_NoFmhaAssert(p) ==
    /\ proc[p].pc = "create_network"
    /\ proc' = [Log(p, "build_engine",
                    <<Step(proc[p].cur_rank, "create_network",
                           get_engine_name(MODEL_NAME(script), args.dtype,
                                           args.world_size, proc[p].cur_rank))>>)
                   EXCEPT ![p].plugin_config = PluginConfig(script, args)]
    /\ UNCHANGED <<env, args, main, dirExists, files>>

\* builder.create_network(), the plugin settings, and the traced forward pass.
CreateNetwork(p) ==
    /\ proc[p].pc = "create_network"
    /\ IF args.enable_context_fmha /\ args.enable_context_fmha_fp32_acc
       THEN proc' = Fail(p, MsgFmha)
       ELSE proc' = [Log(p, "build_engine",
                        <<Step(proc[p].cur_rank, "create_network",
                               get_engine_name(MODEL_NAME(script), args.dtype,
                                               args.world_size, proc[p].cur_rank))>>)
                       EXCEPT ![p].plugin_config = PluginConfig(script, args)]
    /\ UNCHANGED <<env, args, main, dirExists, files>>

\* What builder.build_engine can do: return an engine, return None, or raise.
BuildOutcomes == {"engine", "None", "raise"}

BuildEngine(p) ==
    /\ proc[p].pc = "build_engine"
    /\ \E outcome \in BuildOutcomes :
          IF outcome = "raise"
          THEN proc' = [Log(p, "failed",
                           <<Step(proc[p].cur_rank, "build_engine", outcome)>>)
                          EXCEPT ![p].error = MsgExternal]
          ELSE proc' = [Log(p, "save_config",
                           <<Step(proc[p].cur_rank, "build_engine", outcome)>>)
                          EXCEPT ![p].engine = outcome]
    /\ UNCHANGED <<env, args, main, dirExists, files>>

\* Variant of SavesConfig: the rank test is missing.
SavesConfig_Always(rank) == TRUE

\* "if rank == 0: builder.save_config(...)" of build_rank_engine, whose rank
\* parameter is the rank being built.
SavesConfig(rank) == rank = 0

SaveConfig(p) ==
    /\ proc[p].pc = "save_config"
    /\ IF SavesConfig(proc[p].cur_rank)
       THEN /\ files' = WriteFile(files, ConfigPath(args))
            /\ proc' = Log(p, "assert_engine",
                           <<Step(proc[p].cur_rank, "save_config", ConfigPath(args))>>)
       ELSE /\ files' = files
            /\ proc' = [proc EXCEPT ![p].pc = "assert_engine"]
    /\ UNCHANGED <<env, args, main, dirExists>>

\* "if cur_rank == 0: if not args.parallel_build: cache = ...get_timing_cache()"
TakesCache(a, cur_rank) == cur_rank = 0 /\ ~a.parallel_build

\* Variant of AssertEngine: a rank whose engine is None is given up and the
\* loop goes on with the next rank.
AssertEngine_SkipOnNone(p) ==
    /\ proc[p].pc = "assert_engine"
    /\ IF proc[p].engine = "None"
       THEN proc' = [proc EXCEPT ![p].pc = "for"]
       ELSE IF TakesCache(args, proc[p].cur_rank)
            THEN proc' = [Log(p, "serialize_engine",
                             <<Step(proc[p].cur_rank, "get_timing_cache",
                                    "ITimingCache")>>)
                            EXCEPT ![p].cache = "ITimingCache"]
            ELSE proc' = [proc EXCEPT ![p].pc = "serialize_engine"]
    /\ UNCHANGED <<env, args, main, dirExists, files>>

\* Variant of AssertEngine: the assertion is missing.
AssertEngine_Unchecked(p) ==
    /\ proc[p].pc = "assert_engine"
    /\ IF TakesCache(args, proc[p].cur_rank)
       THEN proc' = [Log(p, "serialize_engine",
                        <<Step(proc[p].cur_rank, "get_timing_cache",
                               "ITimingCache")>>)
                       EXCEPT ![p].cache = "ITimingCache"]
       ELSE proc' = [proc EXCEPT ![p].pc = "serialize_engine"]
    /\ UNCHANGED <<env, args, main, dirExists, files>>

\* Back in build: "assert engine is not None", then the in-memory timing cache.
AssertEngine(p) ==
    /\ proc[p].pc = "assert_engine"
    /\ IF proc[p].engine = "None"
       THEN proc' = Fail(p, MsgEngine)
       ELSE IF TakesCache(args, proc[p].cur_rank)
            THEN proc' = [Log(p, "serialize_engine",
                             <<Step(proc[p].cur_rank, "get_timing_cache",
                                    "ITimingCache")>>)
                            EXCEPT ![p].cache = "ITimingCache"]
            ELSE proc' = [proc EXCEPT ![p].pc = "serialize_engine"]
    /\ UNCHANGED <<env, args, main, dirExists, files>>

SerializeEngine(p) ==
    /\ proc[p].pc = "serialize_engine"
    /\ LET path == EnginePath(args, script, proc[p].cur_rank)
       IN  /\ files' = WriteFile(files, path)
           /\ proc' = [Log(p, "for",
                           <<Step(proc[p].cur_rank, "serialize_engine", path)>>)
                          EXCEPT ![p].engine = "None"]
    /\ UNCHANGED <<env, args, main, dirExists>>

\* "if rank == 0: ok = builder.save_timing_cache(builder_config, ...); assert ok"
SaveTimingCache(p) ==
    /\ proc[p].pc = "save_timing_cache"
    /\ IF proc[p].rank # 0
       THEN /\ proc' = [proc EXCEPT ![p].pc = "returned"]
            /\ files' = files
       ELSE IF ~proc[p].builder_config.bound
            THEN /\ proc' = Fail(p, MsgUnbound)
                 /\ files' = files
            ELSE \E ok \in BOOLEAN :
                   IF ok
                   THEN /\ files' = WriteFile(files, CachePath(args))
                        /\ proc' = Log(p, "returned",
                                       <<Step(proc[p].builder_config.rank,
                                              "save_timing_cache", "True")>>)
                   ELSE /\ files' = files
                        /\ proc' = [Log(p, "failed",
                                        <<Step(proc[p].builder_config.rank,
                                               "save_timing_cache", "False")>>)
                                       EXCEPT ![p].error = MsgTimingCache]
    /\ UNCHANGED <<env, args, main, dirExists>>

\* mp.spawn joins its workers: once one has failed it terminates the others.
Terminate(p) ==
    /\ mode = "parallel"
    /\ Running(p)
    /\ \E q \in DOMAIN proc : proc[q].pc = "failed"
    /\ proc' = [proc EXCEPT ![p].pc = "killed"]
    /\ UNCHANGED <<env, args, main, dirExists, files>>

\* The build call returns to run_build, or its exception ends the main process.
Finish ==
    /\ pc = "building"
    /\ \A p \in DOMAIN proc : ~Running(p)
    /\ IF \A p \in DOMAIN proc : proc[p].pc = "returned"
       THEN pc' = "done" /\ error' = ""
       ELSE /\ pc' = "failed"
            /\ error' = IF mode = "serial" THEN proc[0].error ELSE MsgWorker
    /\ UNCHANGED <<env, args, hf_gpt, mode, proc, dirExists, files>>

\* ---------------------------------------------------------------- specification
\* The state of a run of a build script.
buildVars ==
    <<script, argv, args, deviceCount, ckpt, pc, error, hf_gpt, mode, proc,
      dirExists, files>>

\* ---------------------------------------------------------------- scaling factors
\* "n_layers = 28" and "scaling_factor = 448".
GptjLayers == 28
scaling_factor == 448

\* The keys of the dictionary get_scaling_factors returns.
ScaleKeys ==
    {"fc_act", "fc_weights", "proj_act", "proj_weights", "qkv_act",
     "qkv_weights", "qkv_output", "dense_act", "dense_weights"}

\* The message of the layer assertion (the line continuation keeps the
\* indentation of the source inside the string).
MsgLayer(layer) ==
    "Layer " \o ToString(layer) \o " does not exist in GPTJ model."
        \o "                  Please enter a number between 0 and 27"

\* "assert 0 >= layer and layer < n_layers"
LayerAsserted(layer, n_layers) == 0 >= layer /\ layer < n_layers

\* [x for x in range(n)]
Range(n) == [i \in 1..n |-> i - 1]

\* The dictionary returned when the model file is missing.
DefaultScales(n_layers) ==
    [k \in ScaleKeys |->
        [i \in 1..n_layers |-> IF k = "qkv_output" THEN "5.0" ELSE "0.99"]]

\* convert_amax_to_scale over the amax values read for the selected layers:
\* the amax of each kind at each layer, divided by scaling_factor.
convert_amax_to_scale(selected) ==
    [k \in ScaleKeys |->
        [i \in 1..Len(selected) |->
            [amax |-> <<k, selected[i]>>, divided_by |-> scaling_factor]]]

\* get_scaling_factors(model_path, layers, n_layers): where the call ends,
\* with which exception, and what it returns. The model file holds amax
\* entries for the layers 0..file_layers-1; reading another layer raises
\* KeyError.
get_scaling_factors(c) ==
    IF ~c.model_exists
    THEN [pc |-> "returned", error |-> "", result |-> DefaultScales(c.n_layers)]
    ELSE LET n_layers == GptjLayers
             bad == {i \in 1..Len(c.layers) :
                        ~LayerAsserted(c.layers[i], n_layers)}
             selected == IF c.layers_given THEN c.layers ELSE Range(n_layers)
         IN  IF c.layers_given /\ bad # {}
             THEN [pc |-> "failed", result |-> <<>>,
                   error |-> MsgLayer(c.layers[CHOOSE i \in bad :
                                                 \A j \in bad : i <= j])]
             ELSE IF \E i \in 1..Len(selected) :
                        selected[i] \notin 0..(c.file_layers - 1)
                  THEN [pc |-> "failed", result |-> <<>>, error |-> "KeyError"]
                  ELSE [pc |-> "returned", error |-> "",
                        result |-> convert_amax_to_scale(selected)]

GetScalingFactors ==
    /\ gsf.pc = "call"
    /\ gsf' = [gsf EXCEPT !.pc = get_scaling_factors(gsf).pc, !.error = get_scaling_factors(gsf).error,
                          !.result = get_scaling_factors(gsf).result]
    /\ UNCHANGED <<buildVars, bloom, tr>>

\* No call of get_scaling_factors is under way.
NoCall ==
    [pc |-> "idle", model_exists |-> FALSE, layers_given |-> FALSE,
     layers |-> <<>>, n_layers |-> GptjLayers, file_layers |-> GptjLayers,
     error |-> "", result |-> <<>>]

\* ---------------------------------------------------------------- bloom
\* Python values passed between the functions: a tensor by the key
\* prepare_basic_inputs returns it under, None, an int, a bool.
Tensor(key) == <<"Tensor", key>>
None == <<"None">>
PyInt(n) == <<"int", n>>
PyBool(b) == <<"bool", b>>

\* The keys of model_inputs that prepare_inputs reads.
ModelInputKeys ==
    {"input_ids", "position_ids", "past_key_value", "sequence_length",
     "host_past_key_value_lengths", "last_token_ids", "attention_mask",
     "cache_indirection", "context_lengths", "host_context_lengths",
     "host_request_types"}

\* The parameters of BloomModel.forward after self, in order.
BloomModelParams ==
    <<"input_ids", "position_ids", "past_key_value", "sequence_length",
      "host_past_key_value_lengths", "use_cache", "attention_mask",
      "cache_indirection", "context_lengths", "host_context_lengths",
      "host_request_types", "max_context_length">>

\* The parameters of BloomForCausalLM.forward after self, in order.
BloomForCausalLMParams ==
    <<"input_ids", "position_ids", "past_key_value", "sequence_length",
      "host_past_key_value_lengths", "use_cache", "last_token_ids",
      "attention_mask", "cache_indirection", "context_lengths",
      "host_context_lengths", "host_request_types", "max_context_length">>

\* The default of a parameter of either forward.
DefaultOf(param) == IF param = "use_cache" THEN PyBool(FALSE) ELSE None

\* A call f(*values) of a function with the given parameters raises
\* TypeError when there are more values than parameters.
TooManyArgs(params, values) == Len(values) > Len(params)

\* A call f(*values) of a function with the given parameters: the value each
\* parameter is bound to, its default when no value is left for it.
Bind(params, values) ==
    [name \in {params[i] : i \in 1..Len(params)} |->
        LET i == CHOOSE j \in 1..Len(params) : params[j] = name
        IN  IF i <= Len(values) THEN values[i] ELSE DefaultOf(name)]

\* The tuple prepare_inputs returns.
prepare_inputs(model_inputs, max_input_len) ==
    <<model_inputs["input_ids"], model_inputs["position_ids"],
      model_inputs["past_key_value"], model_inputs["sequence_length"],
      model_inputs["host_past_key_value_lengths"], PyBool(TRUE),
      model_inputs["last_token_ids"], model_inputs["attention_mask"],
      model_inputs["cache_indirection"], model_inputs["context_lengths"],
      model_inputs["host_context_lengths"], model_inputs["host_request_types"],
      PyInt(max_input_len)>>

\* Variant of SuperForwardArgs: attention_mask and cache_indirection change places.
SuperForwardArgs_MaskAfterIndirection(a) ==
    <<a["input_ids"], a["position_ids"], a["past_key_value"],
      a["sequence_length"], a["host_past_key_value_lengths"], a["use_cache"],
      a["cache_indirection"], a["attention_mask"], a["context_lengths"],
      a["host_context_lengths"], a["host_request_types"],
      a["max_context_length"]>>

\* The values BloomForCausalLM.forward passes to super().forward, in order,
\* a being the arguments it was called with.
SuperForwardArgs(a) ==
    <<a["input_ids"], a["position_ids"], a["past_key_value"],
      a["sequence_length"], a["host_past_key_value_lengths"], a["use_cache"],
      a["attention_mask"], a["cache_indirection"], a["context_lengths"],
      a["host_context_lengths"], a["host_request_types"],
      a["max_context_length"]>>

\* inputs = model.prepare_inputs(...)
PrepareInputs ==
    /\ bloom.pc = "constructed"
    /\ bloom' = [bloom EXCEPT !.pc = "prepared",
                    !.inputs = prepare_inputs(bloom.model_inputs,
                                              bloom.max_input_len)]
    /\ UNCHANGED <<buildVars, gsf, tr>>

\* model.forward(*inputs): the arguments are bound to the parameters of
\* BloomForCausalLM.forward.
Forward ==
    /\ bloom.pc = "prepared"
    /\ bloom' = IF TooManyArgs(BloomForCausalLMParams, bloom.inputs)
                 THEN [bloom EXCEPT !.pc = "failed"]
                 ELSE [bloom EXCEPT
                         !.pc = "forward",
                         !.causal_lm = Bind(BloomForCausalLMParams, bloom.inputs)]
    /\ UNCHANGED <<buildVars, gsf, tr>>

\* super().forward(...): the arguments are bound to the parameters of
\* BloomModel.forward.
SuperForward ==
    /\ bloom.pc = "forward"
    /\ LET passed == SuperForwardArgs(bloom.causal_lm)
       IN  bloom' = IF TooManyArgs(BloomModelParams, passed)
                    THEN [bloom EXCEPT !.pc = "failed"]
                    ELSE [bloom EXCEPT !.pc = "super_forward",
                                       !.model = Bind(BloomModelParams, passed)]
    /\ UNCHANGED <<buildVars, gsf, tr>>

NextBloom == PrepareInputs \/ Forward \/ SuperForward

\* No Bloom model is constructed.
NoModel ==
    [pc |-> "idle", max_input_len |-> 0, model_inputs |-> <<>>,
     inputs |-> <<>>, causal_lm |-> <<>>, model |-> <<>>]

\* ---------------------------------------------------------------- test resources
\* cpp/tests/resources/scripts/build_gptj_engines.py. A Path is modelled by
\* its string; the file system by what hf_dir is ("absent", "dir" or "file")
\* and whether hf_dir/pytorch_model.bin is a file.
model_name == "gpt-j-6b"
model_file_name == "pytorch_model.bin"
hf_dir == "models/" \o model_name
engine_dir == "models/rt_engine/" \o model_name

\* Python truthiness of --model_cache: None and the empty string are false.
CacheGiven(model_cache) == model_cache \notin {"None", ""}

\* str(Path(a) / b)
PathOf(a, b) == IF a = "" THEN b ELSE a \o "/" \o b

\* The command line build_engine runs build.py with.
build_args(weight_dir, dir, extra) ==
    <<"python", "examples/gptj/build.py">>
    \o (IF weight_dir # "" THEN <<"--model_dir", weight_dir>> ELSE <<>>)
    \o <<"--output_dir", dir, "--dtype=float16", "--logits_dtype=float16",
         "--use_gemm_plugin=float16", "--use_layernorm_plugin=float16",
         "--max_batch_size=32", "--max_input_len=40", "--max_output_len=20",
         "--max_beam_width=2", "--log_level=error">>
    \o extra

\* Variant of EnginePlan: the in-flight batching build is not given
\* --paged_kv_cache.
EnginePlan_InflightNotPaged(model_cache, only_fp8) ==
    IF only_fp8
    THEN <<[dir |-> engine_dir \o "/fp8-plugin/1-gpu",
            extra |-> <<"--use_gpt_attention_plugin=float16", "--enable_fp8",
                        "--fp8_kv_cache", "--use_inflight_batching",
                        "--paged_kv_cache", "--remove_input_padding",
                        "--quantized_fp8_model_path="
                           \o PathOf(PathOf(model_cache, "fp8-quantized-ammo"),
                                     "GPTJ-07142023.pth")>>]>>
    ELSE <<[dir |-> engine_dir \o "/fp16-plugin/1-gpu",
            extra |-> <<"--use_gpt_attention_plugin=float16">>],
           [dir |-> engine_dir \o "/fp16-plugin-packed/1-gpu",
            extra |-> <<"--use_gpt_attention_plugin=float16",
                        "--remove_input_padding">>],
           [dir |-> engine_dir \o "/fp16-inflight-batching-plugin-paged/1-gpu",
            extra |-> <<"--use_gpt_attention_plugin=float16",
                        "--use_inflight_batching", "--remove_input_padding">>]>>

\* The build_engine calls of build_engines, in program order: the engine
\* directory and the extra arguments of each.
EnginePlan(model_cache, only_fp8) ==
    IF only_fp8
    THEN <<[dir |-> engine_dir \o "/fp8-plugin/1-gpu",
            extra |-> <<"--use_gpt_attention_plugin=float16", "--enable_fp8",
                        "--fp8_kv_cache", "--use_inflight_batching",
                        "--paged_kv_cache", "--remove_input_padding",
                        "--quantized_fp8_model_path="
                           \o PathOf(PathOf(model_cache, "fp8-quantized-ammo"),
                                     "GPTJ-07142023.pth")>>]>>
    ELSE <<[dir |-> engine_dir \o "/fp16-plugin/1-gpu",
            extra |-> <<"--use_gpt_attention_plugin=float16">>],
           [dir |-> engine_dir \o "/fp16-plugin-packed/1-gpu",
            extra |-> <<"--use_gpt_attention_plugin=float16",
                        "--remove_input_padding">>],
           [dir |-> engine_dir \o "/fp16-inflight-batching-plugin-paged/1-gpu",
            extra |-> <<"--use_gpt_attention_plugin=float16",
                        "--use_inflight_batching", "--remove_input_padding",
                        "--paged_kv_cache">>]>>

\* run_command: the command is logged with its outcome; check_call raises
\* CalledProcessError when the command fails.
Ran(t, command, ok) ==
    [t EXCEPT !.cmds = Append(@, [command |-> command, ok |-> ok]),
              !.pc = IF ok THEN @ ELSE "failed",
              !.error = IF ok THEN @ ELSE "CalledProcessError"]

Raised(t, exception) == [t EXCEPT !.pc = "failed", !.error = exception]

\* "Clone or update the model directory without lfs", up to the assertion
\* that hf_dir is a directory. A clone that succeeds makes the directory.
CloneOrPull ==
    /\ tr.pc = "clone_or_pull"
    /\ \E ok \in BOOLEAN :
          tr' = IF tr.hf_dir # "absent"
                THEN IF tr.hf_dir # "dir" THEN Raised(tr, "AssertionError")
                     ELSE [Ran(tr, <<"git", "pull">>, ok) EXCEPT
                             !.pc = IF ok THEN "fetch" ELSE "failed"]
                ELSE LET model_url ==
                            IF CacheGiven(tr.model_cache)
                            THEN "file://" \o PathOf(tr.model_cache, model_name)
                            ELSE "https://huggingface.co/EleutherAI/gpt-j-6b"
                     IN  [Ran(tr, <<"git", "clone", model_url, "--single-branch",
                                    model_name>>, ok)
                            EXCEPT !.pc = IF ok THEN "fetch" ELSE "failed",
                                   !.hf_dir = IF ok THEN "dir" ELSE @]
    /\ UNCHANGED <<buildVars, gsf, bloom>>

\* "Download the model file", from the assertion that hf_dir is a directory
\* up to the assertion that the model file is a file. A command that
\* succeeds may or may not have left the file there.
FetchModelFile ==
    /\ tr.pc = "fetch"
    /\ \E ok \in BOOLEAN, present \in BOOLEAN :
          /\ ~ok => present = tr.model_file
          /\ tr' = IF tr.hf_dir # "dir" THEN Raised(tr, "AssertionError")
                   ELSE LET command ==
                              IF CacheGiven(tr.model_cache)
                              THEN <<"rsync", "-av",
                                     PathOf(PathOf(tr.model_cache, model_name),
                                            model_file_name), ".">>
                              ELSE <<"git", "lfs", "pull", "--include",
                                     model_file_name>>
                            t == [Ran(tr, command, ok) EXCEPT !.model_file = present]
                        IN  IF ~ok THEN t
                            ELSE IF ~present THEN Raised(t, "AssertionError")
                            ELSE [t EXCEPT !.pc = "build"]
    /\ UNCHANGED <<buildVars, gsf, bloom>>

\* The next build_engine call of build_engines. Path(model_cache) raises
\* TypeError when model_cache is None.
RunBuildEngine ==
    /\ tr.pc = "build"
    /\ \E ok \in BOOLEAN :
          LET plan == EnginePlan(tr.model_cache, tr.only_fp8)
              k == tr.built + 1
              t == [Ran(tr, build_args(hf_dir, plan[k].dir, plan[k].extra), ok)
                      EXCEPT !.built = IF ok THEN k ELSE @]
          IN  tr' = IF tr.only_fp8 /\ tr.model_cache = "None"
                    THEN Raised(tr, "TypeError")
                    ELSE IF ok /\ k = Len(plan) THEN [t EXCEPT !.pc = "done"]
                    ELSE t
    /\ UNCHANGED <<buildVars, gsf, bloom>>

NextEngines == CloneOrPull \/ FetchModelFile \/ RunBuildEngine

\* The test-resource script is not running.
NoRun ==
    [pc |-> "idle", model_cache |-> "None", only_fp8 |-> FALSE,
     hf_dir |-> "absent", hf_dir_at_start |-> "absent", model_file |-> FALSE,
     built |-> 0, cmds |-> <<>>, error |-> ""]

NextSerial ==
    \/ ParseArguments
    \/ RunBuildSerial
    \/ \E p \in DOMAIN proc : ExistsCheck(p)
    \/ \E p \in DOMAIN proc : MakeDirs(p)
    \/ \E p \in DOMAIN proc : ForLoop(p)
    \/ \E p \in DOMAIN proc : CreateBuilderConfig(p)
    \/ \E p \in DOMAIN proc : Instantiate(p)
    \/ \E p \in DOMAIN proc : Quantize(p)
    \/ \E p \in DOMAIN proc : LoadWeights(p)
    \/ \E p \in DOMAIN proc : CreateNetwork(p)
    \/ \E p \in DOMAIN proc : BuildEngine(p)
    \/ \E p \in DOMAIN proc : SaveConfig(p)
    \/ \E p \in DOMAIN proc : AssertEngine(p)
    \/ \E p \in DOMAIN proc : SerializeEngine(p)
    \/ \E p \in DOMAIN proc : SaveTimingCache(p)
    \/ Finish

Next ==
    \/ NextSerial
    \/ RunBuildSpawn
    \/ \E p \in DOMAIN proc : Terminate(p)

InitCommon ==
    /\ pc = "start"
    /\ error = ""
    /\ hf_gpt = "None"
    /\ mode = "none"
    /\ proc = <<>>
    /\ files = <<>>
    /\ dirExists \in BOOLEAN

\* The checkpoints the scripts are written for (the parsers' default sizes).
DefaultCkpt(s) ==
    [n_embd |-> DefaultArgs(s).n_embd, n_head |-> DefaultArgs(s).n_head,
     n_layer |-> DefaultArgs(s).n_layer]

\* A build: nothing else is under way.
InitBuild == InitCommon /\ gsf = NoCall /\ bloom = NoModel /\ tr = NoRun

\* Builds of both scripts: world size, build mode, GPUs, checkpoint and
\* weight-only plugin vary.
Init ==
    /\ InitBuild
    /\ script \in Scripts
    /\ ckpt = DefaultCkpt(script)
    /\ deviceCount \in 0..MaxGpus
    /\ \E ws \in 0..MaxWorldSize, md \in {"None", "model_dir"},
          pb \in BOOLEAN, wo \in {"False", "float16"} :
          args = [DefaultArgs(script) EXCEPT
                    !.world_size = ws, !.model_dir = md, !.parallel_build = pb,
                    !.use_weight_only_quant_matmul_plugin = wo]
    /\ argv = args

Spec == Init /\ [][Next]_vars

\* Serial builds of the GPT-J script under every combination of the flags
\* its parse_arguments tests.
InitArgs ==
    /\ InitBuild
    /\ script = "gptj"
    /\ ckpt = DefaultCkpt(script)
    /\ deviceCount = 1
    /\ \E ws \in 0..MaxWorldSize, md \in {"None", "model_dir"},
          attn \in PluginDtypes, prec \in {"int8", "int4"},
          uwo \in BOOLEAN, pg \in BOOLEAN, kv \in BOOLEAN, fp8 \in BOOLEAN,
          ifb \in BOOLEAN, paged \in BOOLEAN, rip \in BOOLEAN, two \in BOOLEAN :
          args = [DefaultArgs(script) EXCEPT
                    !.world_size = ws, !.model_dir = md,
                    !.use_gpt_attention_plugin = attn,
                    !.weight_only_precision = prec, !.use_weight_only = uwo,
                    !.per_group = pg, !.fp8_kv_cache = kv, !.enable_fp8 = fp8,
                    !.use_inflight_batching = ifb, !.paged_kv_cache = paged,
                    !.remove_input_padding = rip,
                    !.enable_two_optimization_profiles = two]
    /\ argv = args

SpecArgs == InitArgs /\ [][NextSerial]_vars

\* The checkpoints tried: the sizes the script is written for, and sizes one
\* larger, which no world size above 1 divides.
CkptChoices(s) ==
    {[DefaultCkpt(s) EXCEPT !.n_embd = e, !.n_head = h] :
        e \in {DefaultArgs(s).n_embd, DefaultArgs(s).n_embd + 1},
        h \in {DefaultArgs(s).n_head, DefaultArgs(s).n_head + 1}}

\* Builds of both scripts with enough GPUs for MaxGpus workers: world size,
\* build mode, the two context-FMHA flags and the sizes in the checkpoint vary.
InitChecks ==
    /\ InitBuild
    /\ script \in Scripts
    /\ deviceCount = MaxGpus
    /\ \E ws \in 0..MaxWorldSize, md \in {"None", "model_dir"}, pb \in BOOLEAN,
          fmha \in BOOLEAN, acc \in BOOLEAN :
          /\ args = [DefaultArgs(script) EXCEPT
                       !.world_size = ws, !.model_dir = md, !.parallel_build = pb,
                       !.enable_context_fmha = fmha,
                       !.enable_context_fmha_fp32_acc = acc]
          /\ ckpt \in IF md = "None" THEN {DefaultCkpt(script)}
                       ELSE CkptChoices(script)
    /\ argv = args

SpecChecks == InitChecks /\ [][Next]_vars

\* Serial builds of both scripts under every combination of the plugin
\* flags their parsers accept, for one rank and for more.
InitPlugins ==
    /\ InitBuild
    /\ script \in Scripts
    /\ ckpt = DefaultCkpt(script)
    /\ deviceCount = 0
    /\ \E ws \in 1..MaxGpus, attn \in PluginDtypes, gemm \in PluginDtypes,
          ln \in PluginDtypes, wo \in {"False", "float16"}, rip \in BOOLEAN,
          ifb \in BOOLEAN, paged \in BOOLEAN :
          /\ script = "gptneox" => (~ifb /\ ~paged)
          /\ args = [DefaultArgs(script) EXCEPT
                       !.world_size = ws, !.use_gpt_attention_plugin = attn,
                       !.use_gemm_plugin = gemm, !.use_layernorm_plugin = ln,
                       !.use_weight_only_quant_matmul_plugin = wo,
                       !.remove_input_padding = rip,
                       !.use_inflight_batching = ifb, !.paged_kv_cache = paged]
    /\ argv = args

SpecPlugins == InitPlugins /\ [][NextSerial]_vars

\* No build is under way: the build scripts' state stays as constructed.
NoBuild ==
    /\ InitCommon
    /\ dirExists = FALSE
    /\ script = "gptj"
    /\ ckpt = DefaultCkpt(script)
    /\ deviceCount = 0
    /\ args = DefaultArgs(script)
    /\ argv = args

\* The layer indices tried: around both ends of 0..GptjLayers-1.
LayerChoices == {-1, 0, 1, GptjLayers - 1, GptjLayers}

\* The layers lists tried: up to MaxLayerList indices.
LayerLists == UNION {[1..n -> LayerChoices] : n \in 0..MaxLayerList}

\* Calls of get_scaling_factors: the model file exists or not, holding the
\* layers of a GPT-J checkpoint or of a two-layer one; layers is None or a
\* list; n_layers is what the caller passes.
InitScaling ==
    /\ NoBuild
    /\ bloom = NoModel
    /\ tr = NoRun
    /\ \E ex \in BOOLEAN, given \in BOOLEAN, ls \in LayerLists,
          n \in {1, 2, GptjLayers}, fl \in {2, GptjLayers} :
          /\ ~given => ls = <<>>
          /\ gsf = [NoCall EXCEPT !.pc = "call", !.model_exists = ex,
                                  !.layers_given = given, !.layers = ls,
                                  !.n_layers = n, !.file_layers = fl]

SpecScaling == InitScaling /\ [][GetScalingFactors]_vars

\* A constructed BloomForCausalLM: prepare_basic_inputs gives, under each
\* key, a tensor or None; max_input_len is what the caller passes.
InitBloom ==
    /\ NoBuild
    /\ gsf = NoCall
    /\ tr = NoRun
    /\ \E len \in 1..MaxInputLen, nones \in SUBSET ModelInputKeys :
          bloom = [NoModel EXCEPT
                     !.pc = "constructed", !.max_input_len = len,
                     !.model_inputs = [k \in ModelInputKeys |->
                                         IF k \in nones THEN None ELSE Tensor(k)]]

SpecBloom == InitBloom /\ [][NextBloom]_vars

\* Runs of build_gptj_engines.py: --model_cache absent, empty or a path;
\* --only_fp8 given or not; the model directory absent, a directory (with
\* or without the model file) or a file.
InitEngines ==
    /\ NoBuild
    /\ gsf = NoCall
    /\ bloom = NoModel
    /\ \E cache \in {"None", "", "/model_cache"}, fp8 \in BOOLEAN,
          dir \in {"absent", "dir", "file"}, present \in BOOLEAN :
          /\ present => dir = "dir"
          /\ tr = [NoRun EXCEPT !.pc = "clone_or_pull", !.model_cache = cache,
                                !.only_fp8 = fp8, !.hf_dir = dir,
                                !.hf_dir_at_start = dir, !.model_file = present]

SpecEngines == InitEngines /\ [][NextEngines]_vars

\* ================================================================ claims
\* parse_arguments raised: the main process ended before run_build chose a mode.
ParseFailed == pc = "failed" /\ mode = "none"

\* parse_arguments returned its args.
ParseReturned == pc # "start" /\ ~ParseFailed

NoBuildStepRan == mode = "none" /\ DOMAIN proc = {} /\ DOMAIN files = {}

HasCall(q, call) == \E i \in 1..Len(q) : q[i] = call

\* C1: in the GPT-J script, parse_arguments with use_inflight_batching fails
\* with an assertion error unless use_gpt_attention_plugin, paged_kv_cache
\* and remove_input_padding are all set; whenever parse_arguments fails no
\* build step has run and no file has been written.
C1_InflightNeedsAllThree ==
    (script = "gptj" /\ pc # "start") =>
        /\ (args.use_inflight_batching
              /\ ~(Truthy(args.use_gpt_attention_plugin) /\ args.paged_kv_cache
                    /\ args.remove_input_padding))
           => (ParseFailed /\ error \in AssertionMessages)
        /\ ParseFailed => NoBuildStepRan

C1_Witness ==
    /\ script = "gptj" /\ ParseFailed /\ NoBuildStepRan
    /\ args.use_inflight_batching /\ Truthy(args.use_gpt_attention_plugin)
    /\ args.paged_kv_cache /\ ~args.remove_input_padding
    /\ error = MsgIfbPadding

\* C8: in the GPT-J script, parse_arguments given
\* enable_two_optimization_profiles fails with an assertion error when
\* in-flight batching or paged KV cache is requested, and in every other
\* flag combination the two-profiles assertion does not fire.
C8_TwoProfilesRejectedOnlyForIfbOrPaged ==
    (script = "gptj" /\ pc # "start" /\ args.enable_two_optimization_profiles) =>
        /\ (args.use_inflight_batching \/ args.paged_kv_cache) => ParseFailed
        /\ ~(args.use_inflight_batching \/ args.paged_kv_cache)
           => error # MsgTwoProfiles

C10_Fp8Flags ==
    (script = "gptj" /\ pc # "start") =>
        /\ (args.fp8_kv_cache /\ ~Truthy(args.use_gpt_attention_plugin))
           => (ParseFailed /\ error \in AssertionMessages)
        /\ ParseReturned =>
              /\ HasCall(args.quant_mode, "set_fp8_kv_cache()") <=> args.fp8_kv_cache
              /\ HasCall(args.quant_mode, "set_fp8_qdq()") <=> args.enable_fp8

C10_Witness ==
    /\ script = "gptj" /\ ParseReturned
    /\ ~args.fp8_kv_cache /\ args.enable_fp8
    /\ HasCall(args.quant_mode, "set_fp8_qdq()")
    /\ ~HasCall(args.quant_mode, "set_fp8_kv_cache()")

\* ---------------------------------------------------------------- build claims
Trace(p) == proc[p].trace

\* The positions of the trace of p that hold the given step for the given rank.
Calls(p, rank, step) ==
    {i \in 1..Len(Trace(p)) : Trace(p)[i].rank = rank /\ Trace(p)[i].step = step}

CallsOf(p, step) == {i \in 1..Len(Trace(p)) : Trace(p)[i].step = step}

Ranks == 0..(args.world_size - 1)

\* The engine path the claims name: output_dir/'{model}_{dtype}_tp{N}_rank{r}.engine'.
ClaimedEnginePath(r) ==
    args.output_dir \o "/" \o script \o "_" \o args.dtype \o "_tp"
        \o ToString(args.world_size) \o "_rank" \o ToString(r) \o ".engine"

ClaimedConfigPath == args.output_dir \o "/config.json"

ClaimedCachePath == args.output_dir \o "/model.cache"

\* C2: after a successful serial build with world_size N >= 1, the engine
\* file of every rank 0..N-1 has been written exactly once at
\* output_dir/'{model}_{dtype}_tp{N}_rank{r}.engine', and nothing else has
\* been written except config.json and model.cache.
C2_OneEnginePerRank ==
    (pc = "done" /\ mode = "serial" /\ args.world_size >= 1) =>
        /\ \A r \in Ranks : Written(ClaimedEnginePath(r)) = 1
        /\ \A path \in DOMAIN files :
              /\ files[path] = 1
              /\ path \in {ClaimedEnginePath(r) : r \in Ranks}
                           \cup {ClaimedConfigPath, ClaimedCachePath}

C2_Witness ==
    /\ pc = "done" /\ mode = "serial" /\ args.world_size = MaxWorldSize
    /\ \A r \in Ranks : Written(ClaimedEnginePath(r)) = 1

\* C3: worker processes are spawned when parallel_build is set, world_size
\* is N > 1 and there are at least N GPUs; they are the ranks 0..N-1; the
\* worker of rank r makes calls for rank r only; and once every worker has
\* returned, each worker has serialized one engine and each rank's engine
\* file has been written exactly once.
C3_WorkerBuildsOwnRank ==
    /\ mode # "none" =>
          (mode = "parallel" <=>
              (argv.parallel_build /\ argv.world_size > 1
                 /\ deviceCount >= argv.world_size))
    /\ mode = "parallel" =>
        /\ DOMAIN proc = Ranks
        /\ Cardinality(DOMAIN proc) = argv.world_size
        /\ \A p \in DOMAIN proc :
              /\ proc[p].rank = p
              /\ \A i \in 1..Len(Trace(p)) : Trace(p)[i].rank = p
        /\ (\A p \in DOMAIN proc : proc[p].pc = "returned") =>
              \A r \in Ranks :
                  /\ Written(ClaimedEnginePath(r)) = 1
                  /\ Cardinality(CallsOf(r, "serialize_engine")) = 1

C3_Witness ==
    /\ mode = "parallel" /\ args.world_size = MaxGpus
    /\ \A p \in DOMAIN proc : proc[p].pc = "returned"
    /\ \A r \in Ranks : Written(ClaimedEnginePath(r)) = 1

\* The serial build failed at rank k: build_engine raised or returned None
\* for it, or an assertion of build_rank_engine failed for it.
FailedAt(k) ==
    \/ \E i \in Calls(0, k, "build_engine") : Trace(0)[i].arg \in {"None", "raise"}
    \/ /\ proc[0].pc = "failed" /\ proc[0].cur_rank = k
       /\ proc[0].error \in {MsgNotLoaded, MsgEmbd, MsgHead, MsgFmha,
                              MsgExternal, MsgEngine}

\* C4: in a serial build, once build_engine has raised or returned None for
\* rank k, no call has been made for a rank greater than k, rank k is not
\* serialized, the timing cache is not saved, the engine files of the ranks
\* below k are in place and the run does not end successfully; and no rank
\* is ever built twice.
C4_NoRetryNoRecovery ==
    mode = "serial" =>
        /\ \A r \in Ranks : Cardinality(Calls(0, r, "create_builder_config")) <= 1
        /\ \A r \in Ranks : Cardinality(Calls(0, r, "build_engine")) <= 1
        /\ \A k \in Ranks : FailedAt(k) =>
              /\ \A i \in 1..Len(Trace(0)) : Trace(0)[i].rank <= k
              /\ Calls(0, k, "serialize_engine") = {}
              /\ CallsOf(0, "save_timing_cache") = {}
              /\ Written(ClaimedCachePath) = 0
              /\ \A r \in Ranks : Written(ClaimedEnginePath(r)) = IF r < k THEN 1 ELSE 0
              /\ pc # "done"
              /\ proc[0].pc \in {"save_config", "assert_engine", "failed"}

C4_Witness ==
    /\ mode = "serial" /\ pc = "failed" /\ args.world_size = MaxWorldSize
    /\ \E i \in Calls(0, 1, "build_engine") : Trace(0)[i].arg = "None"
    /\ Written(ClaimedEnginePath(0)) = 1

\* C5: in a serial build the builder config of rank 0 is created with the
\* args.timing_cache path and that of every rank r > 0 with the in-memory
\* timing cache taken from rank 0's builder config after rank 0's engine
\* was built; in a parallel build no in-memory cache is taken and every
\* builder config is created with the args.timing_cache path.
C5_TimingCacheReuse ==
    \A p \in DOMAIN proc :
        /\ \A i \in CallsOf(p, "create_builder_config") :
              IF mode = "serial" /\ Trace(p)[i].rank > 0
              THEN /\ Trace(p)[i].arg = "ITimingCache"
                   /\ \E g \in Calls(p, 0, "get_timing_cache") :
                         /\ g < i
                         /\ \E b \in Calls(p, 0, "build_engine") :
                               b < g /\ Trace(p)[b].arg = "engine"
              ELSE Trace(p)[i].arg = args.timing_cache
        /\ mode = "parallel" => CallsOf(p, "get_timing_cache") = {}

C5_Witness ==
    /\ mode = "serial"
    /\ \E i \in Calls(0, 1, "create_builder_config") :
          Trace(0)[i].arg = "ITimingCache"
    /\ \E i \in Calls(0, 0, "create_builder_config") :
          Trace(0)[i].arg = "model.cache"

\* The place of a call in the order of the calls made for one rank.
StepIndex(step) ==
    CASE step = "create_builder_config" -> 0
      [] step = "instantiate" -> 1
      [] step = "quantize" -> 2
      [] step = "load_weights" -> 3
      [] step = "create_network" -> 4
      [] step = "build_engine" -> 5
      [] step = "save_config" -> 6
      [] step = "get_timing_cache" -> 7
      [] step = "serialize_engine" -> 8
      [] OTHER -> 9

\* C6: in every process the calls made for a rank come in the order
\* instantiate, quantize (optional), load weights (only with model_dir),
\* create network, build engine, serialize engine; an engine is serialized
\* only after build_engine returned an engine for that rank and after all
\* the earlier steps of that rank; and in a serial build the first call for
\* rank r+1 comes after the engine of rank r was serialized.
C6_StepOrder ==
    \A p \in DOMAIN proc :
        /\ \A i, j \in 1..Len(Trace(p)) :
              (i < j /\ Trace(p)[i].rank = Trace(p)[j].rank) =>
                  \/ StepIndex(Trace(p)[i].step) < StepIndex(Trace(p)[j].step)
                  \/ Trace(p)[i].step = "quantize" /\ Trace(p)[j].step = "quantize"
        /\ CallsOf(p, "load_weights") # {} => args.model_dir # "None"
        /\ \A j \in CallsOf(p, "serialize_engine") :
              LET r == Trace(p)[j].rank
              IN  /\ \E b \in Calls(p, r, "build_engine") :
                        b < j /\ Trace(p)[b].arg = "engine"
                  /\ \E i \in Calls(p, r, "instantiate") : i < j
                  /\ \E i \in Calls(p, r, "create_network") : i < j
                  /\ args.model_dir # "None" =>
                        \E i \in Calls(p, r, "load_weights") : i < j
        /\ mode = "serial" =>
              \A j \in 1..Len(Trace(p)) :
                  Trace(p)[j].rank > 0 =>
                      \E i \in Calls(p, Trace(p)[j].rank - 1, "serialize_engine") :
                          i < j

C6_Witness ==
    /\ pc = "done" /\ mode = "serial" /\ args.world_size >= 2
    /\ args.model_dir # "None"
    /\ Calls(0, 1, "quantize") # {}
    /\ Calls(0, 1, "load_weights") # {}
    /\ Calls(0, 1, "serialize_engine") # {}

\* C7: in every successful build config.json has been saved exactly once,
\* by the process of rank 0 for rank 0, after build_engine returned rank 0's
\* engine and before that engine was serialized; the timing cache has been
\* saved exactly once, to output_dir/model.cache, by the process of rank 0
\* as its last call, after it serialized every engine it builds; and a
\* process whose save_timing_cache returned False fails with "Failed to
\* save timing cache." and the build does not succeed.
C7_ConfigAndCacheSavedOnce ==
    /\ pc = "done" =>
          /\ Written(ClaimedConfigPath) = 1
          /\ Written(ClaimedCachePath) = 1
          /\ \A p \in DOMAIN proc \ {0} :
                CallsOf(p, "save_config") = {} /\ CallsOf(p, "save_timing_cache") = {}
          /\ 0 \in DOMAIN proc /\ proc[0].rank = 0
          /\ Cardinality(CallsOf(0, "save_config")) = 1
          /\ \A c \in CallsOf(0, "save_config") :
                /\ Trace(0)[c].rank = 0
                /\ \E b \in Calls(0, 0, "build_engine") :
                      b < c /\ Trace(0)[b].arg = "engine"
                /\ \E z \in Calls(0, 0, "serialize_engine") : c < z
          /\ CallsOf(0, "save_timing_cache") = {Len(Trace(0))}
          /\ Trace(0)[Len(Trace(0))].arg = "True"
          /\ Cardinality(CallsOf(0, "serialize_engine"))
                = IF mode = "serial" THEN args.world_size ELSE 1
    /\ \A p \in DOMAIN proc :
          (\E i \in CallsOf(p, "save_timing_cache") : Trace(p)[i].arg = "False") =>
              /\ proc[p].pc = "failed"
              /\ proc[p].error = "Failed to save timing cache."
              /\ proc[p].error \in AssertionMessages
              /\ Written(ClaimedCachePath) = 0
              /\ pc # "done"

C7_Witness ==
    /\ pc = "done" /\ mode = "parallel" /\ args.world_size = MaxGpus
    /\ Written(ClaimedConfigPath) = 1
    /\ Written(ClaimedCachePath) = 1

\* ---------------------------------------------------------------- C11
OtherPrecision(prec) == IF prec = "int8" THEN "int4" ELSE "int8"

\* The command line, and the args of this run, with the other value of
\* --weight_only_precision: the build this one is compared with.
TwinArgv == [argv EXCEPT !.weight_only_precision = OtherPrecision(@)]
TwinArgs == [args EXCEPT !.weight_only_precision = OtherPrecision(@)]

\* The entries of the trace of p with the given step for the given rank, in order.
StepsOf(p, rank, step) ==
    SelectSeq(Trace(p), LAMBDA e : e.rank = rank /\ e.step = step)

\* C11: two GPT-J builds that differ only in weight_only_precision, both
\* without use_weight_only, behave alike: parse_arguments passes or fails
\* alike with the same message, quant_mode is the same, the same checkpoint
\* loader is used, and every process makes the same quantization, weight
\* loading and plugin settings. Each observation of this run equals what the
\* program computes for the twin command line.
C11_PrecisionIgnoredWithoutWeightOnly ==
    (script = "gptj" /\ ~argv.use_weight_only /\ pc # "start") =>
        /\ ParseFailed <=> ParseError(script, TwinArgv) # ""
        /\ ParseFailed => error = ParseError(script, TwinArgv)
        /\ hf_gpt = LoadCheckpoint(script, TwinArgv)
        /\ ParseReturned => args.quant_mode = QuantModeOf(TwinArgv)
        /\ \A p \in DOMAIN proc :
              /\ proc[p].plugin_config \in {{}, PluginConfig(script, TwinArgs)}
              /\ \A i \in CallsOf(p, "load_weights") :
                    Trace(p)[i].arg = WeightLoader(script, TwinArgs)
              /\ \A r \in Ranks :
                    Calls(p, r, "create_network") # {}
                    => StepsOf(p, r, "quantize") = QuantizeSteps(script, TwinArgs, r)

\* A finished build given int4 and per_group but not use_weight_only: had
\* the precision counted, it would have chosen the AWQ loader.
C11_Witness ==
    /\ script = "gptj" /\ pc = "done" /\ ~argv.use_weight_only
    /\ argv.weight_only_precision = "int4" /\ argv.per_group
    /\ argv.model_dir # "None" /\ hf_gpt = "hf"
    /\ \E p \in DOMAIN proc : CallsOf(p, "load_weights") # {}

\* ---------------------------------------------------------------- C12, C13
\* C12: get_scaling_factors, called with an existing model file and a layers
\* list, accepts every layer index from 0 to 27 and fails with the "Layer ...
\* does not exist in GPTJ model" assertion for every index outside that range.
C12_LayerIndexRange ==
    (gsf.pc \in {"returned", "failed"} /\ gsf.model_exists /\ gsf.layers_given) =>
        /\ (\A i \in 1..Len(gsf.layers) : gsf.layers[i] \in 0..27)
           => \A l \in LayerChoices : gsf.error # MsgLayer(l)
        /\ \A i \in 1..Len(gsf.layers) :
              gsf.layers[i] \notin 0..27
              => (gsf.pc = "failed" /\ \E l \in LayerChoices : gsf.error = MsgLayer(l))

\* C13: get_scaling_factors called with layers=None returns, whether the
\* model file exists or not, a dictionary with the same nine keys, each list
\* with exactly n_layers entries, one per layer in layer order, n_layers
\* being the value the caller passed.
C13_AllLayersOfCaller ==
    (gsf.pc \in {"returned", "failed"} /\ ~gsf.layers_given
        /\ gsf.file_layers >= gsf.n_layers) =>
        /\ gsf.pc = "returned"
        /\ DOMAIN gsf.result = ScaleKeys
        /\ \A k \in ScaleKeys :
              /\ Len(gsf.result[k]) = gsf.n_layers
              /\ gsf.model_exists =>
                    \A i \in 1..Len(gsf.result[k]) :
                        gsf.result[k][i].amax = <<k, i - 1>>

\* ---------------------------------------------------------------- C14
\* C14: the values BloomForCausalLM.prepare_inputs returns can be fed
\* positionally into BloomForCausalLM.forward: the i-th value is the argument
\* of the i-th parameter (each model input under its own name, use_cache
\* sixth, last_token_ids seventh, max_input_len last as max_context_length),
\* and the arguments forward passes on reach the parameters of the same
\* name in BloomModel.forward.
C14_PositionalInputs ==
    /\ bloom.pc # "failed"
    /\ bloom.pc \in {"forward", "super_forward"} =>
          /\ Len(bloom.inputs) = Len(BloomForCausalLMParams)
          /\ \A i \in 1..Len(bloom.inputs) :
                bloom.causal_lm[BloomForCausalLMParams[i]] = bloom.inputs[i]
          /\ \A k \in ModelInputKeys : bloom.causal_lm[k] = bloom.model_inputs[k]
          /\ BloomForCausalLMParams[6] = "use_cache"
          /\ bloom.causal_lm["use_cache"] = PyBool(TRUE)
          /\ BloomForCausalLMParams[7] = "last_token_ids"
          /\ BloomForCausalLMParams[Len(BloomForCausalLMParams)] = "max_context_length"
          /\ bloom.causal_lm["max_context_length"] = PyInt(bloom.max_input_len)
    /\ bloom.pc = "super_forward" =>
          \A i \in 1..Len(BloomModelParams) :
              bloom.model[BloomModelParams[i]] = bloom.causal_lm[BloomModelParams[i]]

\* Both forwards are entered, with a tensor as attention_mask and None as
\* cache_indirection: neighbours in the call, told apart by their values.
C14_Witness ==
    /\ bloom.pc = "super_forward"
    /\ bloom.model["attention_mask"] = Tensor("attention_mask")
    /\ bloom.model["cache_indirection"] = None
    /\ bloom.model["max_context_length"] = PyInt(MaxInputLen)

\* ---------------------------------------------------------------- C15, C16
\* The process has made the network of some rank.
PastLoading(p) ==
    proc[p].pc \in {"build_engine", "save_config", "assert_engine",
                    "serialize_engine"}
    \/ CallsOf(p, "create_network") # {}

ContextFmha(p) == {c \in proc[p].plugin_config : c[1] = "context_fmha"}

\* C15: both scripts reject enable_context_fmha given together with
\* enable_context_fmha_fp32_acc by an assertion in build_rank_engine before
\* the engine of that rank is built, so no engine is built or written;
\* otherwise every network made has context FMHA set to 'enabled' with only
\* the first flag, to 'enabled_with_fp32_acc' with only the second, and not
\* set with neither.
C15_ContextFmhaFlags ==
    /\ (argv.enable_context_fmha /\ argv.enable_context_fmha_fp32_acc) =>
          /\ pc # "done"
          /\ \A r \in Ranks : Written(ClaimedEnginePath(r)) = 0
          /\ \A p \in DOMAIN proc :
                /\ ~PastLoading(p)
                /\ CallsOf(p, "build_engine") = {}
                /\ (proc[p].pc = "failed" /\ Calls(p, proc[p].cur_rank, "instantiate") # {})
                   => proc[p].error \in {MsgFmha, MsgNotLoaded, MsgEmbd, MsgHead}
    /\ ~(argv.enable_context_fmha /\ argv.enable_context_fmha_fp32_acc) =>
          \A p \in DOMAIN proc :
              /\ proc[p].error # MsgFmha
              /\ PastLoading(p) =>
                    ContextFmha(p) =
                        IF argv.enable_context_fmha
                        THEN {<<"context_fmha", "enabled">>}
                        ELSE IF argv.enable_context_fmha_fp32_acc
                        THEN {<<"context_fmha", "enabled_with_fp32_acc">>}
                        ELSE {}

\* A serial build with both flags and a checkpoint: rank 0 loads its weights
\* and stops at the assertion, which ends the build.
C15_Witness ==
    /\ argv.enable_context_fmha /\ argv.enable_context_fmha_fp32_acc
    /\ mode = "serial" /\ argv.model_dir # "None"
    /\ proc[0].pc = "failed" /\ proc[0].error = MsgFmha
    /\ CallsOf(0, "load_weights") # {}
    /\ pc = "failed"

\* The sizes do not divide among the ranks.
NotDivisible ==
    args.world_size > 1
    /\ (args.n_embd % args.world_size # 0 \/ args.n_head % args.world_size # 0)

\* With these sizes the build fails by assertion before weights are loaded
\* or an engine is built.
FailsBeforeLoading ==
    /\ pc # "done"
    /\ \A r \in Ranks : Written(ClaimedEnginePath(r)) = 0
    /\ \A p \in DOMAIN proc :
          /\ CallsOf(p, "load_weights") = {}
          /\ CallsOf(p, "build_engine") = {}
          /\ proc[p].pc \in {"exists_check", "makedirs", "for",
                              "create_builder_config", "instantiate", "quantize",
                              "load_weights", "failed", "killed"}

\* C16: a GPT-NeoX build with world_size > 1 fails with an assertion error
\* before any weights are loaded or any engine is built whenever n_embd or
\* n_head is not divisible by world_size.
C16_DivisibilityAlwaysChecked ==
    (script = "gptneox" /\ mode # "none" /\ NotDivisible) => FailsBeforeLoading

\* ---------------------------------------------------------------- C17
\* The plugin config of p sets the named plugin with exactly the dtype the
\* flag was given with, and not at all when the flag was not given.
SetAsGiven(p, plugin, flag) ==
    {c \in proc[p].plugin_config : c[1] = plugin}
        = IF flag \in {"float16", "float32"} THEN {<<plugin, flag>>} ELSE {}

\* The plugin config of p has the named feature enabled.
Enabled(p, feature) == \E c \in proc[p].plugin_config : c[1] = feature

\* C17: in both scripts the plugin flags pass through to every network made:
\* the GPT-attention, GEMM, layernorm and weight-only-matmul plugins are set,
\* with the dtype given on the command line, exactly when their flag was
\* given; remove-input-padding, in-flight batching and paged KV cache are
\* enabled exactly when their flags were given; the NCCL plugin is set
\* exactly when world_size > 1.
C17_PluginFlagsPassThrough ==
    \A p \in DOMAIN proc :
        CallsOf(p, "create_network") # {} =>
            /\ SetAsGiven(p, "gpt_attention_plugin", argv.use_gpt_attention_plugin)
            /\ SetAsGiven(p, "gemm_plugin", argv.use_gemm_plugin)
            /\ SetAsGiven(p, "layernorm_plugin", argv.use_layernorm_plugin)
            /\ SetAsGiven(p, "weight_only_quant_matmul_plugin",
                          argv.use_weight_only_quant_matmul_plugin)
            /\ Enabled(p, "remove_input_padding") <=> argv.remove_input_padding
            /\ Enabled(p, "in_flight_batching") <=> argv.use_inflight_batching
            /\ Enabled(p, "paged_kv_cache") <=> argv.paged_kv_cache
            /\ Enabled(p, "nccl_plugin") <=> argv.world_size > 1

\* A finished build for several ranks with the attention plugin in float32,
\* the GEMM plugin in float16, no layernorm plugin and in-flight batching.
C17_Witness ==
    /\ pc = "done" /\ argv.world_size > 1
    /\ argv.use_gpt_attention_plugin = "float32" /\ argv.use_gemm_plugin = "float16"
    /\ argv.use_layernorm_plugin = "False" /\ argv.use_inflight_batching
    /\ <<"gpt_attention_plugin", "float32">> \in proc[0].plugin_config
    /\ <<"gemm_plugin", "float16">> \in proc[0].plugin_config
    /\ Enabled(0, "in_flight_batching") /\ Enabled(0, "nccl_plugin")

\* ---------------------------------------------------------------- C18
\* The ranks p has serialized an engine for, in the order it did.
BuiltRanks(p) ==
    LET built == SelectSeq(Trace(p), LAMBDA e : e.step = "serialize_engine")
    IN  [i \in 1..Len(built) |-> built[i].rank]

\* C18: worker processes are spawned exactly when parallel_build is set,
\* world_size > 1 and at least world_size GPUs are present; in every other
\* case parallel_build is reset to False and one process, with rank 0,
\* builds the ranks 0..world_size-1 in ascending order.
C18_BuildModeChoice ==
    mode # "none" =>
        /\ mode = "parallel" <=>
              (argv.parallel_build /\ argv.world_size > 1
                 /\ deviceCount >= argv.world_size)
        /\ mode = "parallel" => (args.parallel_build /\ DOMAIN proc = Ranks)
        /\ mode # "parallel" =>
              /\ mode = "serial"
              /\ args.parallel_build = FALSE
              /\ DOMAIN proc = {0} /\ proc[0].rank = 0
              /\ \E n \in 0..argv.world_size : BuiltRanks(0) = Range(n)
              /\ \A i, j \in 1..Len(Trace(0)) :
                    i < j => Trace(0)[i].rank <= Trace(0)[j].rank
              /\ pc = "done" => BuiltRanks(0) = Range(argv.world_size)

\* parallel_build was asked for with more ranks than GPUs: one process has
\* built every rank.
C18_Witness ==
    /\ mode = "serial" /\ pc = "done"
    /\ argv.parallel_build /\ ~args.parallel_build
    /\ argv.world_size = MaxWorldSize /\ deviceCount = MaxGpus
    /\ BuiltRanks(0) = Range(MaxWorldSize)

\* ---------------------------------------------------------------- C19
\* C19: whenever build_rank_engine loads weights (model_dir given and
\* parse_arguments succeeded), the assertion "hf_gpt is not None" holds, for
\* every rank and in every process that builds: the single process of a
\* serial build and each spawned worker.
C19_CheckpointLoadedInEveryProcess ==
    (mode # "none" /\ args.model_dir # "None") =>
        \A p \in DOMAIN proc :
            /\ proc[p].pc = "load_weights" => proc[p].hf_gpt # "None"
            /\ proc[p].error # MsgNotLoaded

\* ---------------------------------------------------------------- C20
\* The words of the i-th command the script has run.
Command(i) == tr.cmds[i].command

\* The value that follows the given option in a command line.
OptionValue(command, option) ==
    command[1 + CHOOSE i \in 1..Len(command) : command[i] = option]

\* The output directories of the engine builds run so far, in order.
OutputDirs ==
    LET builds == SelectSeq(tr.cmds,
                            LAMBDA c : c.command[2] = "examples/gptj/build.py")
    IN  [i \in 1..Len(builds) |-> OptionValue(builds[i].command, "--output_dir")]

\* The engine builds the claim names, by output directory.
ClaimedBuilds ==
    IF tr.only_fp8
    THEN <<"models/rt_engine/gpt-j-6b/fp8-plugin/1-gpu">>
    ELSE <<"models/rt_engine/gpt-j-6b/fp16-plugin/1-gpu",
           "models/rt_engine/gpt-j-6b/fp16-plugin-packed/1-gpu",
           "models/rt_engine/gpt-j-6b/fp16-inflight-batching-plugin-paged/1-gpu">>

\* C20: the test-resource script runs its steps in order and stops at the
\* first failing command: it pulls when its model directory exists and
\* clones otherwise, then fetches pytorch_model.bin, and starts an engine
\* build only after the directory exists and the model file is present;
\* with only_fp8 it runs exactly one engine build (fp8-plugin), otherwise
\* exactly three, in the order fp16-plugin, fp16-plugin-packed,
\* fp16-inflight-batching-plugin-paged, each into its own engine directory.
C20_EngineBuildSteps ==
    /\ Len(tr.cmds) >= 1 =>
          Command(1)[2] = IF tr.hf_dir_at_start = "absent" THEN "clone" ELSE "pull"
    /\ Len(tr.cmds) >= 2 =>
          /\ Command(2)[1] \in {"rsync", "git"}
          /\ \E i \in 1..Len(Command(2)) :
                Command(2)[i] \in {"pytorch_model.bin",
                                   tr.model_cache \o "/gpt-j-6b/pytorch_model.bin"}
    /\ \A i \in 1..Len(tr.cmds) :
          /\ i >= 3 <=> Command(i)[2] = "examples/gptj/build.py"
          /\ i < Len(tr.cmds) => tr.cmds[i].ok
          /\ ~tr.cmds[i].ok => tr.pc = "failed"
    /\ Len(tr.cmds) >= 3 => (tr.hf_dir = "dir" /\ tr.model_file)
    /\ \E n \in 0..Len(ClaimedBuilds) :
          OutputDirs = SubSeq(ClaimedBuilds, 1, n)
    /\ \A i, j \in 1..Len(OutputDirs) : i # j => OutputDirs[i] # OutputDirs[j]
    /\ (tr.pc \in {"done", "failed"} /\ tr.hf_dir = "dir" /\ tr.model_file
          /\ \A i \in 1..Len(tr.cmds) : tr.cmds[i].ok)
       => (tr.pc = "done" /\ OutputDirs = ClaimedBuilds)

\* ---------------------------------------------------------------- C21
\* The command line has the word.
HasWord(command, word) == \E i \in 1..Len(command) : command[i] = word

\* argparse, action='store_true': the flag is on when its option is present.
StoreTrue(command, option) == HasWord(command, option)

\* argparse, nargs='?' with a const: the value of "--option=value" or of
\* "--option value" for a value among the choices, the const when the option
\* stands alone, the default when it is absent.
OptionalValue(command, option, choices, const, default) ==
    IF \E v \in choices : HasWord(command, option \o "=" \o v)
    THEN CHOOSE v \in choices : HasWord(command, option \o "=" \o v)
    ELSE IF HasWord(command, option)
    THEN LET i == CHOOSE j \in 1..Len(command) : command[j] = option
         IN  IF i < Len(command) /\ command[i + 1] \in choices
             THEN command[i + 1] ELSE const
    ELSE default

\* The namespace the GPT-J parser makes of a command line, in the fields
\* parse_arguments goes on to test.
ParseCommandLine(command) ==
    [DefaultArgs("gptj") EXCEPT
       !.model_dir = IF HasWord(command, "--model_dir")
                     THEN OptionValue(command, "--model_dir") ELSE @,
       !.use_gpt_attention_plugin =
           OptionalValue(command, "--use_gpt_attention_plugin",
                         {"float16", "float32"}, "float16", @),
       !.use_gemm_plugin =
           OptionalValue(command, "--use_gemm_plugin",
                         {"float16", "float32"}, "float16", @),
       !.use_layernorm_plugin =
           OptionalValue(command, "--use_layernorm_plugin",
                         {"float16", "float32"}, "float16", @),
       !.weight_only_precision =
           OptionalValue(command, "--weight_only_precision",
                         {"int8", "int4"}, "int8", @),
       !.use_weight_only = StoreTrue(command, "--use_weight_only"),
       !.per_group = StoreTrue(command, "--per_group"),
       !.enable_fp8 = StoreTrue(command, "--enable_fp8"),
       !.fp8_kv_cache = StoreTrue(command, "--fp8_kv_cache"),
       !.use_inflight_batching = StoreTrue(command, "--use_inflight_batching"),
       !.paged_kv_cache = StoreTrue(command, "--paged_kv_cache"),
       !.remove_input_padding = StoreTrue(command, "--remove_input_padding"),
       !.enable_two_optimization_profiles =
           StoreTrue(command, "--enable_two_optimization_profiles")]

\* The positions of the engine builds among the commands run so far.
BuildCommands ==
    {i \in 1..Len(tr.cmds) : Command(i)[2] = "examples/gptj/build.py"}

\* C21: every engine build the test-resource script starts passes flags
\* that satisfy all flag-combination assertions of the GPT-J
\* parse_arguments: with --use_inflight_batching it also passes the GPT
\* attention plugin, --paged_kv_cache and --remove_input_padding; with
\* --fp8_kv_cache it also passes the GPT attention plugin; and it passes
\* neither --enable_two_optimization_profiles nor --use_weight_only.
C21_TestBuildsPassParseAssertions ==
    \A i \in BuildCommands :
        LET a == ParseCommandLine(Command(i))
        IN  /\ ParseErrorGptj(a) = ""
            /\ a.use_inflight_batching =>
                  (Truthy(a.use_gpt_attention_plugin) /\ a.paged_kv_cache
                     /\ a.remove_input_padding)
            /\ a.fp8_kv_cache => Truthy(a.use_gpt_attention_plugin)
            /\ ~HasWord(Command(i), "--enable_two_optimization_profiles")
            /\ ~HasWord(Command(i), "--use_weight_only")
            /\ ~a.enable_two_optimization_profiles /\ ~a.use_weight_only

\* The fp8 build has run, with in-flight batching and the fp8 KV cache.
C21_Witness ==
    /\ tr.pc = "done" /\ tr.only_fp8 /\ BuildCommands # {}
    /\ \A i \in BuildCommands :
          /\ ParseCommandLine(Command(i)).use_inflight_batching
          /\ ParseCommandLine(Command(i)).fp8_kv_cache
          /\ ParseCommandLine(Command(i)).use_gpt_attention_plugin = "float16"
          /\ ParseCommandLine(Command(i)).model_dir = hf_dir


====
